---- MODULE Spec2Model ----
(***************************************************************************)
(* Model of the limiters of sweetiebot (package sweetiebot, the part of    *)
(* src/main/main.go from line 48 on): RateLimit / CheckRateLimit on one    *)
(* shared int64 cell, SaturationLimit, a mutex-guarded circular buffer of   *)
(* timestamps, and the one-word atomics AtomicFlag and AtomicBool.          *)
(*                                                                         *)
(* Times are Unix seconds (time.Now().UTC().Unix()), far from the ends of  *)
(* the int64 range, so t - d is modelled on the integers.                  *)
(***************************************************************************)
EXTENDS Integers, Sequences, FiniteSets, TLC

\* ------------------------------------------------------------ bounds
\* Calls begun on the cell in one behaviour, over all goroutines.
MaxCalls == 3
\* The clock runs from 1 to MaxTime.
MaxTime == 3
\* Intervals passed to the calls: 0..MaxInterval.
MaxInterval == 1

\* Initial capacities of a SaturationLimit: 1..MaxCap; resize takes -1..MaxCap.
MaxCap == 3
\* Timestamps appended and current times passed to check: 0..MaxStamp.
MaxStamp == 1
\* Periods passed to check and checkafter: 0..MaxPeriod.
MaxPeriod == 1
\* Timestamps appended to one instance in one behaviour.
MaxAppends == 3

\* Calls made on one AtomicFlag in one behaviour, over all goroutines.
MaxFlagCalls == 4
\* Calls made on one AtomicBool in one behaviour, over all goroutines.
MaxBoolCalls == 4
\* Arguments of realmod: x in -MaxX..MaxX, m in 0..MaxM.
MaxX == 12
MaxM == 4

\* Goroutines calling RateLimit / CheckRateLimit on the one cell.
Callers == {"c1", "c2", "c3"}
Intervals == 0..MaxInterval
\* The values the cell may be seeded with: one further in the past than any
\* interval when the clock starts, and one that is recent.
Seeds == {0 - MaxInterval - 1, 0}

VARIABLES
    prevtime,   \* the shared cell *prevtime
    now,        \* what time.Now().UTC().Unix() returns at this moment
    interval,   \* the interval every call of the behaviour passes
    rl,         \* per goroutine: pc and the locals t, d of its call in progress
    granted,    \* the times t of the calls that returned true, in that order
    last,       \* the last completed call of each kind
    obs,        \* what has been observed of the calls so far
    times,      \* SaturationLimit.times, slot i of the slice at position i+1
    index,      \* SaturationLimit.index
    lock,       \* SaturationLimit.lock: the goroutine holding it, or "free"
    sl,         \* per goroutine: where it is in its call on the instance
    slast,      \* what the body of the call now returning did and returns
    app,        \* the timestamps appended since construction, in order
    resized,    \* whether resize has replaced the buffer
    failed,     \* the runtime panic that ended the program and the call it came from
    flag,       \* AtomicFlag.flag
    af,         \* per goroutine: its call on the AtomicFlag and what it returns
    epoch,      \* what the test_and_set calls since the last clear returned, in order
    afcalls,    \* calls made on the AtomicFlag so far
    bflag,      \* AtomicBool.flag
    ab,         \* per goroutine: its call on the AtomicBool and what it returns
    lastset,    \* the value passed to the latest set to have stored, FALSE if none
    abcalls,    \* calls made on the AtomicBool so far
    rx,         \* realmod's argument x
    rm,         \* realmod's argument m
    rr          \* realmod's outcome

rlvars == <<prevtime, now, interval, rl, granted, last, obs>>
slvars == <<times, index, lock, sl, slast, app, resized, failed>>
afvars == <<flag, af, epoch, afcalls>>
abvars == <<bflag, ab, lastset, abcalls>>
rmvars == <<rx, rm, rr>>
vars == <<prevtime, now, interval, rl, granted, last, obs,
          times, index, lock, sl, slast, app, resized, failed,
          flag, af, epoch, afcalls, bflag, ab, lastset, abcalls, rx, rm, rr>>

Kinds == {"RateLimit", "CheckRateLimit"}

\* A goroutine that is in no call.  fails counts the failed compare-and-swaps of
\* the call, w lists the changes <<old, new>> it made to the cell, dirty says
\* that another call changed the cell since this call's last load.
RLIdle == [pc |-> "idle", t |-> 0, d |-> 0, fails |-> 0, w |-> <<>>, dirty |-> FALSE]

\* No call of the kind has completed yet (n = 0).
NoCall == [n |-> 0, t |-> 0, d |-> 0, ret |-> FALSE, fails |-> 0, w |-> <<>>,
           before |-> <<>>]

\* Calls begun so far.
Started == obs.begun

\* ------------------------------------------------------------ the code
\* A comparison that rejects one second too long: t-d <= interval+1.
TooSoonLate(t, d, i) == t - d <= i + 1

\* A comparison that is off by one: t-d < interval.
TooSoonStrict(t, d, i) == t - d < i

\* main.go:128  if t-d <= interval { return false }
TooSoon(t, d, i) == t - d <= i

\* A probe that is off by one: t-d >= interval.
ElapsedOrEqual(t, d, i) == t - d >= i

\* main.go:119  time.Now().UTC().Unix()-atomic.LoadInt64(prevtime) > interval
Elapsed(t, d, i) == t - d > i

\* The check-then-store this loop replaced (INSTALLATION.md:299-307): the store
\* goes ahead whatever the cell holds.
StoreUnchecked(cell, old, new) == TRUE

\* A compare-and-swap given t for the expected value as well.
CompareWithNew(cell, old, new) == cell = new

\* main.go:131  atomic.CompareAndSwapInt64(prevtime, d, t): whether it swaps
\* when the cell holds cell.
CompareAndSwapInt64(cell, old, new) == cell = old

\* A plain store of t, made whether or not the comparison succeeds.
StoredAnyway(cell, old, new) == new

\* main.go:131  the value the cell holds after the compare-and-swap.
Swapped(cell, old, new) == IF CompareAndSwapInt64(cell, old, new) THEN new ELSE cell

\* A probe that records its own time in the cell, as RateLimit does.
LoadClaims(cell, t) == t

\* main.go:119  atomic.LoadInt64(prevtime) in CheckRateLimit: the cell after it.
LoadKeeps(cell, t) == cell

\* The record of a call of goroutine p that completes now, returning ret after
\* reading d; before is the list of granted times when it completes.
Done(p, kind, ret, d, w) ==
    [n |-> last[kind].n + 1, t |-> rl[p].t, d |-> d, ret |-> ret,
     fails |-> rl[p].fails, w |-> w, before |-> granted]

\* The goroutines after a step of p that leaves the cell at new: every other
\* call in progress has seen a change since its load when new differs.
Seen(p, new) ==
    [q \in Callers |->
        IF q # p /\ new # prevtime THEN [rl[q] EXCEPT !.dirty = TRUE] ELSE rl[q]]

\* The changes of the cell counted so far, after a step that leaves it at new.
Changes(new) == IF new # prevtime THEN obs.changes + 1 ELSE obs.changes

\* main.go:125  t := time.Now().UTC().Unix()
RateLimitCall(p) ==
    /\ rl[p].pc = "idle"
    /\ Started < MaxCalls
    /\ rl' = [rl EXCEPT ![p] = [RLIdle EXCEPT !.pc = "load", !.t = now]]
    /\ obs' = [obs EXCEPT !.begun = @ + 1,
                          !.lo = IF obs.rlbegun = 0 THEN now ELSE @,
                          !.hi = now,
                          !.rlbegun = @ + 1]
    /\ UNCHANGED <<prevtime, now, interval, granted, last>>
    /\ UNCHANGED <<slvars, afvars, abvars, rmvars>>

\* main.go:127-130  d := atomic.LoadInt64(prevtime); if t-d <= interval return false
RateLimitLoad(p) ==
    /\ rl[p].pc = "load"
    /\ LET d == prevtime
       IN  IF TooSoon(rl[p].t, d, interval)
           THEN /\ last' = [last EXCEPT !["RateLimit"] =
                               Done(p, "RateLimit", FALSE, d, rl[p].w)]
                /\ rl' = [rl EXCEPT ![p] = RLIdle]
                /\ obs' = [obs EXCEPT !.denied = @ \cup {rl[p].t}]
           ELSE /\ rl' = [rl EXCEPT ![p].pc = "cas", ![p].d = d, ![p].dirty = FALSE]
                /\ last' = last
                /\ obs' = obs
    /\ UNCHANGED <<prevtime, now, interval, granted>>
    /\ UNCHANGED <<slvars, afvars, abvars, rmvars>>

\* main.go:131-135  if CompareAndSwapInt64(prevtime, d, t) return true; else retry
RateLimitCAS(p) ==
    /\ rl[p].pc = "cas"
    /\ LET ok  == CompareAndSwapInt64(prevtime, rl[p].d, rl[p].t)
           new == Swapped(prevtime, rl[p].d, rl[p].t)
           w   == IF new # prevtime THEN Append(rl[p].w, <<prevtime, new>>) ELSE rl[p].w
       IN  /\ prevtime' = new
           /\ IF ok
              THEN /\ last' = [last EXCEPT !["RateLimit"] =
                                  Done(p, "RateLimit", TRUE, rl[p].d, w)]
                   /\ granted' = Append(granted, rl[p].t)
                   /\ rl' = [Seen(p, new) EXCEPT ![p] = RLIdle]
                   /\ obs' = [obs EXCEPT !.changes = Changes(new)]
              ELSE /\ last' = last
                   /\ granted' = granted
                   /\ rl' = [Seen(p, new) EXCEPT ![p].pc = "load", ![p].w = w,
                                                 ![p].fails = rl[p].fails + 1]
                   /\ obs' = [obs EXCEPT !.changes = Changes(new),
                                         !.orphan = @ \/ ~rl[p].dirty]
    /\ UNCHANGED <<now, interval>>
    /\ UNCHANGED <<slvars, afvars, abvars, rmvars>>

\* main.go:119  time.Now().UTC().Unix(), the left operand, is evaluated first
CheckRateLimitCall(p) ==
    /\ rl[p].pc = "idle"
    /\ Started < MaxCalls
    /\ rl' = [rl EXCEPT ![p] = [RLIdle EXCEPT !.pc = "ckload", !.t = now]]
    /\ obs' = [obs EXCEPT !.begun = @ + 1]
    /\ UNCHANGED <<prevtime, now, interval, granted, last>>
    /\ UNCHANGED <<slvars, afvars, abvars, rmvars>>

\* main.go:119  ... - atomic.LoadInt64(prevtime) > interval
CheckRateLimitLoad(p) ==
    /\ rl[p].pc = "ckload"
    /\ LET d   == prevtime
           new == LoadKeeps(prevtime, rl[p].t)
           w   == IF new # prevtime THEN Append(rl[p].w, <<prevtime, new>>) ELSE rl[p].w
       IN  /\ prevtime' = new
           /\ last' = [last EXCEPT !["CheckRateLimit"] =
                          Done(p, "CheckRateLimit", Elapsed(rl[p].t, d, interval), d, w)]
           /\ rl' = [Seen(p, new) EXCEPT ![p] = RLIdle]
           /\ obs' = [obs EXCEPT !.changes = Changes(new)]
    /\ UNCHANGED <<now, interval, granted>>
    /\ UNCHANGED <<slvars, afvars, abvars, rmvars>>

\* The wall clock advances by a second.
Tick ==
    /\ now < MaxTime
    /\ now' = now + 1
    /\ UNCHANGED <<prevtime, interval, rl, granted, last, obs>>
    /\ UNCHANGED <<slvars, afvars, abvars, rmvars>>

\* seed: the value the cell was seeded with; begun: calls begun; rlbegun:
\* RateLimit calls begun, lo and hi the least and the greatest t among them;
\* changes: changes of the cell; orphan: some compare-and-swap failed with no
\* change of the cell by another call since the failing call's last load;
\* denied: the times t of the RateLimit calls that returned false.
RLInitWith(seeds, intervals) ==
    /\ prevtime \in seeds
    /\ now = 1
    /\ interval \in intervals
    /\ rl = [p \in Callers |-> RLIdle]
    /\ granted = <<>>
    /\ last = [k \in Kinds |-> NoCall]
    /\ obs = [seed |-> prevtime, begun |-> 0, rlbegun |-> 0, lo |-> 0, hi |-> 0,
              changes |-> 0, orphan |-> FALSE, denied |-> {}]

RLInit == RLInitWith(Seeds, Intervals)

\* A step of a call in progress.
RLStep(p) == RateLimitLoad(p) \/ RateLimitCAS(p) \/ CheckRateLimitLoad(p)

RLNext ==
    \/ Tick
    \/ \E p \in Callers : RateLimitCall(p)
    \/ \E p \in Callers : RateLimitLoad(p)
    \/ \E p \in Callers : RateLimitCAS(p)
    \/ \E p \in Callers : CheckRateLimitCall(p)
    \/ \E p \in Callers : CheckRateLimitLoad(p)

\* ------------------------------------------------------------ SaturationLimit
\* Goroutines calling into one SaturationLimit.
Threads == {"g1", "g2"}
Stamps == 0..MaxStamp
Periods == 0..MaxPeriod
Caps == 1..MaxCap
\* num passed to check and checkafter, past the capacity too.
Nums == 0..(MaxCap + 1)
\* size passed to resize.
Sizes == (0 - 1)..MaxCap

\* main.go:65  len(s.times) and s.times[i], Go's slices starting at 0.
len(a) == Len(a)
At(a, i) == a[i + 1]
InRange(a, i) == 0 <= i /\ i < len(a)

\* main.go:71  x %= m, m > 0: Go's remainder has the sign of x.
Rem(x, m) == IF x >= 0 THEN x % m ELSE 0 - ((0 - x) % m)

\* The remainder as Go's % leaves it, without the correction of negatives.
TruncatedMod(x, m) == Rem(x, m)

\* main.go:70-76
realmod(x, m) ==
    LET r == Rem(x, m)
    IN  IF r < 0 THEN r + m ELSE r

\* An append that wraps only when the cursor stands on the last slot.
AppendSlotWrapAtEnd(idx, n) == IF idx + 1 = n THEN 0 ELSE idx + 1

\* An append that overwrites the cursor's slot without advancing.
AppendSlotStays(idx, n) == realmod(idx, n)


\* main.go:89  realmod(s.index+1, len(s.times))
AppendSlot(idx, n) == realmod(idx + 1, n)

\* The slot num behind the cursor, where check reads num-1 behind.
CheckSlotNumBehind(idx, num, n) == realmod(idx - num, n)

\* main.go:97  realmod(s.index-(num-1), len(s.times))
CheckSlot(idx, num, n) == realmod(idx - (num - 1), n)

\* The slot num-1 behind the cursor, where checkafter reads num behind.
CheckAfterSlotOneLess(idx, num, n) == realmod(idx - (num - 1), n)

\* main.go:105  realmod(s.index-num, len(s.times))
CheckAfterSlot(idx, num, n) == realmod(idx - num, n)

\* A comparison of the distance between the two times, whichever is later.
WithinEitherWay(a, b, period) == (IF a >= b THEN a - b ELSE b - a) <= period

\* main.go:98, 106  (a - b) <= period
Within(a, b, period) == (a - b) <= period

\* A resize that allocates the new buffer and copies nothing into it.
ResizedZeroed(a, size) == [i \in 1..size |-> 0]

\* main.go:112-113  n := make([]int64, size, size); copy(n, s.times)
Resized(a, size) == [i \in 1..size |-> IF i <= Len(a) THEN a[i] ELSE 0]

NoOp == [op |-> "none", num |-> 0, period |-> 0, curtime |-> 0, ret |-> FALSE,
         i |-> 0, val |-> 0, cur |-> 0]

\* No panic so far.
NoPanic == [why |-> "none", op |-> "none", num |-> 0]

\* A runtime panic in the body of goroutine p's call op(num, ...): nothing is
\* written.
Panic(p, op, num, why) ==
    /\ failed' = [why |-> why, op |-> op, num |-> num]
    /\ sl' = [sl EXCEPT ![p] = "panic"]
    /\ UNCHANGED <<times, index, lock, slast, app, resized>>

\* A lock that lets every caller in, as a copy of the mutex would.
NeverHeld(l) == TRUE

\* main.go:67  lock sync.Mutex: Lock returns only once no goroutine holds it.
Unlocked(l) == l = "free"

\* main.go:87, 95, 103, 110  s.lock.Lock()
SLLock(p) ==
    /\ failed.why = "none"
    /\ sl[p] = "idle"
    /\ Unlocked(lock)
    /\ lock' = p
    /\ sl' = [sl EXCEPT ![p] = "cs"]
    /\ UNCHANGED <<times, index, slast, app, resized, failed>>
    /\ UNCHANGED <<rlvars, afvars, abvars, rmvars>>

\* main.go:88, 96, 104, 111  defer s.lock.Unlock(): runs on return and, before
\* the program ends, on a panic.  The call is over: slast, what its body did and
\* returns, goes to the caller.
SLUnlock(p) ==
    /\ sl[p] \in {"exit", "panic"}
    /\ lock = p
    /\ lock' = "free"
    /\ sl' = [sl EXCEPT ![p] = IF sl[p] = "exit" THEN "idle" ELSE "dead"]
    /\ slast' = NoOp
    /\ UNCHANGED <<times, index, app, resized, failed>>
    /\ UNCHANGED <<rlvars, afvars, abvars, rmvars>>

\* main.go:89-90  append(t)
SLAppend(p, t) ==
    /\ failed.why = "none"
    /\ sl[p] = "cs"
    /\ IF len(times) = 0
       THEN Panic(p, "append", 0, "integer divide by zero")
       ELSE LET i == AppendSlot(index, len(times))
            IN  IF ~InRange(times, i)
                THEN Panic(p, "append", 0, "index out of range")
                ELSE /\ index' = i
                     /\ times' = [times EXCEPT ![i + 1] = t]
                     /\ app' = Append(app, t)
                     /\ slast' = [NoOp EXCEPT !.op = "append", !.i = i, !.val = t,
                                              !.cur = t]
                     /\ sl' = [sl EXCEPT ![p] = "exit"]
                     /\ UNCHANGED <<lock, resized, failed>>
    /\ UNCHANGED <<rlvars, afvars, abvars, rmvars>>

\* A check that leaves the cursor on the slot it read.
SLCheckMovesCursor(p, num, period, curtime) ==
    /\ failed.why = "none"
    /\ sl[p] = "cs"
    /\ len(times) > 0
    /\ LET i == realmod(index - (num - 1), len(times))
       IN  /\ index' = i
           /\ slast' = [op |-> "check", num |-> num, period |-> period,
                        curtime |-> curtime,
                        ret |-> Within(curtime, At(times, i), period),
                        i |-> i, val |-> At(times, i), cur |-> 0]
           /\ sl' = [sl EXCEPT ![p] = "exit"]
           /\ UNCHANGED <<times, lock, app, resized, failed>>
    /\ UNCHANGED <<rlvars, afvars, abvars, rmvars>>

\* main.go:97-98  check(num, period, curtime)
SLCheck(p, num, period, curtime) ==
    /\ failed.why = "none"
    /\ sl[p] = "cs"
    /\ IF len(times) = 0
       THEN Panic(p, "check", num, "integer divide by zero")
       ELSE LET i == CheckSlot(index, num, len(times))
            IN  IF ~InRange(times, i)
                THEN Panic(p, "check", num, "index out of range")
                ELSE /\ slast' = [op |-> "check", num |-> num, period |-> period,
                                  curtime |-> curtime,
                                  ret |-> Within(curtime, At(times, i), period),
                                  i |-> i, val |-> At(times, i), cur |-> 0]
                     /\ sl' = [sl EXCEPT ![p] = "exit"]
                     /\ UNCHANGED <<times, index, lock, app, resized, failed>>
    /\ UNCHANGED <<rlvars, afvars, abvars, rmvars>>

\* main.go:105-106  checkafter(num, period)
SLCheckAfter(p, num, period) ==
    /\ failed.why = "none"
    /\ sl[p] = "cs"
    /\ IF len(times) = 0
       THEN Panic(p, "checkafter", num, "integer divide by zero")
       ELSE LET i == CheckAfterSlot(index, num, len(times))
            IN  IF ~InRange(times, index) \/ ~InRange(times, i)
                THEN Panic(p, "checkafter", num, "index out of range")
                ELSE /\ slast' = [op |-> "checkafter", num |-> num,
                                  period |-> period, curtime |-> 0,
                                  ret |-> Within(At(times, index), At(times, i), period),
                                  i |-> i, val |-> At(times, i),
                                  cur |-> At(times, index)]
                     /\ sl' = [sl EXCEPT ![p] = "exit"]
                     /\ UNCHANGED <<times, index, lock, app, resized, failed>>
    /\ UNCHANGED <<rlvars, afvars, abvars, rmvars>>

\* main.go:112-114  resize(size)
SLResize(p, size) ==
    /\ failed.why = "none"
    /\ sl[p] = "cs"
    /\ IF size < 0
       THEN Panic(p, "resize", size, "makeslice: len out of range")
       ELSE /\ times' = Resized(times, size)
            /\ resized' = TRUE
            /\ slast' = [NoOp EXCEPT !.op = "resize", !.num = size]
            /\ sl' = [sl EXCEPT ![p] = "exit"]
            /\ UNCHANGED <<index, lock, app, failed>>
    /\ UNCHANGED <<rlvars, afvars, abvars, rmvars>>

\* A new instance of capacity c: a zeroed buffer with the cursor on slot 0.
SLFresh(c) ==
    /\ times = [i \in 1..c |-> 0]
    /\ index = 0

SLInitWith(caps) ==
    /\ \E c \in caps : SLFresh(c)
    /\ lock = "free"
    /\ sl = [p \in Threads |-> "idle"]
    /\ slast = NoOp
    /\ app = <<>>
    /\ resized = FALSE
    /\ failed = NoPanic

SLInit == SLInitWith(Caps)

SLNext ==
    \/ \E p \in Threads : SLLock(p)
    \/ \E p \in Threads : SLUnlock(p)
    \/ \E p \in Threads, t \in Stamps : Len(app) < MaxAppends /\ SLAppend(p, t)
    \/ \E p \in Threads, num \in Nums, period \in Periods, curtime \in Stamps :
          SLCheck(p, num, period, curtime)
    \/ \E p \in Threads, num \in Nums, period \in Periods : SLCheckAfter(p, num, period)
    \/ \E p \in Threads, size \in Sizes : SLResize(p, size)

\* The example of the specification's testable properties: capacity 5, the
\* timestamps 10, 20, 30, 40, 50 appended in that order, checks of period 25 at
\* current time 55.
ExampleTimes == <<10, 20, 30, 40, 50>>
ExamplePeriods == {25}
ExampleNow == {55}

ExampleNext ==
    \/ \E p \in Threads : SLLock(p)
    \/ \E p \in Threads : SLUnlock(p)
    \/ \E p \in Threads :
          Len(app) < Len(ExampleTimes) /\ SLAppend(p, ExampleTimes[Len(app) + 1])
    \/ \E p \in Threads, num \in 0..(Len(ExampleTimes) + 1),
          period \in ExamplePeriods, curtime \in ExampleNow :
          SLCheck(p, num, period, curtime)

\* main.go:89  s.index = realmod(s.index+1, len(s.times)), the first statement
\* of append as a step of its own
SLAppendIndex(p) ==
    /\ failed.why = "none"
    /\ sl[p] = "cs"
    /\ IF len(times) = 0
       THEN Panic(p, "append", 0, "integer divide by zero")
       ELSE /\ index' = AppendSlot(index, len(times))
            /\ sl' = [sl EXCEPT ![p] = "advanced"]
            /\ UNCHANGED <<times, lock, slast, app, resized, failed>>
    /\ UNCHANGED <<rlvars, afvars, abvars, rmvars>>

\* main.go:90  s.times[s.index] = t, the second statement of append
SLAppendStore(p, t) ==
    /\ failed.why = "none"
    /\ sl[p] = "advanced"
    /\ IF ~InRange(times, index)
       THEN Panic(p, "append", 0, "index out of range")
       ELSE /\ times' = [times EXCEPT ![index + 1] = t]
            /\ app' = Append(app, t)
            /\ slast' = [NoOp EXCEPT !.op = "append", !.i = index, !.val = t,
                                     !.cur = t]
            /\ sl' = [sl EXCEPT ![p] = "exit"]
            /\ UNCHANGED <<index, lock, resized, failed>>
    /\ UNCHANGED <<rlvars, afvars, abvars, rmvars>>

\* Every goroutine appends once, each a timestamp of its own, as the parallel
\* benchmark's goroutines do, while checks go on.  The two statements of append
\* are separate steps here, so that only the lock keeps them together.
StampOf(p) == IF p = "g1" THEN 1 ELSE 2

\* Goroutine p has made its append.
HasAppended(p) == \E k \in 1..Len(app) : app[k] = StampOf(p)

ConcurrentNext ==
    \/ \E p \in Threads : SLLock(p)
    \/ \E p \in Threads : SLUnlock(p)
    \/ \E p \in Threads : ~HasAppended(p) /\ SLAppendIndex(p)
    \/ \E p \in Threads : SLAppendStore(p, StampOf(p))
    \/ \E p \in Threads, num \in Nums, period \in Periods, curtime \in Stamps :
          SLCheck(p, num, period, curtime)

\* ------------------------------------------------------------ AtomicFlag
\* Goroutines calling test_and_set / clear on the one AtomicFlag.
Flaggers == {"f1", "f2", "f3"}

\* A goroutine that is in no call on the flag.
AFIdle == [pc |-> "idle", op |-> "none", ret |-> FALSE]

\* A test_and_set that reports whether it was the one to set the flag.
WasUnset(old) == old = 0

\* main.go:79  atomic.SwapUint32(&f.flag, 1) != 0, old being what the swap
\* returns
WasSet(old) == old # 0

\* main.go:78-80  test_and_set(): the swap, and the value the call returns
test_and_set(p) ==
    /\ af[p].pc = "idle"
    /\ afcalls < MaxFlagCalls
    /\ flag' = 1
    /\ af' = [af EXCEPT ![p] = [pc |-> "ret", op |-> "test_and_set",
                                ret |-> WasSet(flag)]]
    /\ epoch' = Append(epoch, WasSet(flag))
    /\ afcalls' = afcalls + 1
    /\ UNCHANGED <<rlvars, slvars, abvars, rmvars>>

\* main.go:82-84  clear()
clear(p) ==
    /\ af[p].pc = "idle"
    /\ afcalls < MaxFlagCalls
    /\ flag' = 0
    /\ af' = [af EXCEPT ![p] = [pc |-> "ret", op |-> "clear", ret |-> FALSE]]
    /\ epoch' = <<>>
    /\ afcalls' = afcalls + 1
    /\ UNCHANGED <<rlvars, slvars, abvars, rmvars>>

\* main.go:80, 84  the call returns to its caller
AFReturn(p) ==
    /\ af[p].pc = "ret"
    /\ af' = [af EXCEPT ![p] = AFIdle]
    /\ UNCHANGED <<flag, epoch, afcalls>>
    /\ UNCHANGED <<rlvars, slvars, abvars, rmvars>>

\* main.go:58-60  the zero value of AtomicFlag
AFInit ==
    /\ flag = 0
    /\ af = [p \in Flaggers |-> AFIdle]
    /\ epoch = <<>>
    /\ afcalls = 0

AFNext ==
    \/ \E p \in Flaggers : test_and_set(p)
    \/ \E p \in Flaggers : clear(p)
    \/ \E p \in Flaggers : AFReturn(p)

\* ------------------------------------------------------------ AtomicBool
\* Goroutines calling get / set on the one AtomicBool.
Accessors == {"a1", "a2", "a3"}

\* A goroutine that is in no call on the boolean.
ABIdle == [pc |-> "idle", op |-> "none", ret |-> FALSE, want |-> FALSE]

\* A set that stores the word for the opposite value.
EncodeInverted(value) == IF value THEN 0 ELSE 1

\* main.go:147-151  var v uint32 = 0; if value { v = 1 }
Encode(value) == IF value THEN 1 ELSE 0

\* main.go:144  atomic.LoadUint32(&b.flag) != 0
Decode(w) == w # 0

\* main.go:143-145  get(): the load, and the value the call returns; want is
\* the value of the latest set at the moment of the load
get(p) ==
    /\ ab[p].pc = "idle"
    /\ abcalls < MaxBoolCalls
    /\ ab' = [ab EXCEPT ![p] = [pc |-> "ret", op |-> "get",
                                ret |-> Decode(bflag), want |-> lastset]]
    /\ abcalls' = abcalls + 1
    /\ UNCHANGED <<bflag, lastset>>
    /\ UNCHANGED <<rlvars, slvars, afvars, rmvars>>

\* main.go:147-153  set(value)
set(p, value) ==
    /\ ab[p].pc = "idle"
    /\ abcalls < MaxBoolCalls
    /\ bflag' = Encode(value)
    /\ lastset' = value
    /\ ab' = [ab EXCEPT ![p] = [pc |-> "ret", op |-> "set", ret |-> FALSE,
                                want |-> value]]
    /\ abcalls' = abcalls + 1
    /\ UNCHANGED <<rlvars, slvars, afvars, rmvars>>

\* main.go:145, 153  the call returns to its caller
ABReturn(p) ==
    /\ ab[p].pc = "ret"
    /\ ab' = [ab EXCEPT ![p] = ABIdle]
    /\ UNCHANGED <<bflag, lastset, abcalls>>
    /\ UNCHANGED <<rlvars, slvars, afvars, rmvars>>

\* main.go:139-141  the zero value of AtomicBool
ABInit ==
    /\ bflag = 0
    /\ ab = [p \in Accessors |-> ABIdle]
    /\ lastset = FALSE
    /\ abcalls = 0

ABNext ==
    \/ \E p \in Accessors : get(p)
    \/ \E p \in Accessors, value \in BOOLEAN : set(p, value)
    \/ \E p \in Accessors : ABReturn(p)

\* ------------------------------------------------------------ realmod
\* No call of realmod made yet.
RMNone == [st |-> "none", r |-> 0]

\* main.go:70-76  realmod(x, m) called on its own; x %= m panics when m is 0
RealmodCall ==
    /\ rr.st = "none"
    /\ rr' = IF rm = 0 THEN [st |-> "integer divide by zero", r |-> 0]
                       ELSE [st |-> "ret", r |-> realmod(rx, rm)]
    /\ UNCHANGED <<rx, rm>>
    /\ UNCHANGED <<rlvars, slvars, afvars, abvars>>

RMInitWith(xs, ms) ==
    /\ rx \in xs
    /\ rm \in ms
    /\ rr = RMNone

RMNext == RealmodCall

\* ------------------------------------------------------------ specifications
\* The cell and its callers, the SaturationLimit left alone.
\* The atomics and realmod left alone.
OthersInit ==
    /\ AFInit
    /\ ABInit
    /\ RMInitWith({0}, {1})

RateLimitInit ==
    /\ RLInit
    /\ SLInitWith({1})
    /\ OthersInit

SpecRateLimit == RateLimitInit /\ [][RLNext]_vars

\* Every goroutine that is in a call keeps being scheduled.
SpecRateLimitFair ==
    /\ SpecRateLimit
    /\ \A p \in Callers : WF_vars(RLStep(p))

\* One SaturationLimit and its callers, the cell left alone.
SaturationInit ==
    /\ SLInit
    /\ RLInitWith({0}, {0})
    /\ OthersInit

SpecSaturation == SaturationInit /\ [][SLNext]_vars

\* The example instance.
ExampleInit ==
    /\ SLInitWith({Len(ExampleTimes)})
    /\ RLInitWith({0}, {0})
    /\ OthersInit

SpecExample == ExampleInit /\ [][ExampleNext]_vars

\* One SaturationLimit on which every goroutine appends once.
ConcurrentInit ==
    /\ SLInit
    /\ RLInitWith({0}, {0})
    /\ OthersInit

SpecConcurrentAppend == ConcurrentInit /\ [][ConcurrentNext]_vars

\* One AtomicFlag and its callers.
AtomicFlagInit ==
    /\ AFInit
    /\ ABInit
    /\ RMInitWith({0}, {1})
    /\ RLInitWith({0}, {0})
    /\ SLInitWith({1})

SpecAtomicFlag == AtomicFlagInit /\ [][AFNext]_vars

\* One AtomicBool and its callers.
AtomicBoolInit ==
    /\ ABInit
    /\ AFInit
    /\ RMInitWith({0}, {1})
    /\ RLInitWith({0}, {0})
    /\ SLInitWith({1})

SpecAtomicBool == AtomicBoolInit /\ [][ABNext]_vars

\* realmod applied once to each pair of arguments.
RealmodInit ==
    /\ RMInitWith((0 - MaxX)..MaxX, 0..MaxM)
    /\ AFInit
    /\ ABInit
    /\ RLInitWith({0}, {0})
    /\ SLInitWith({1})

SpecRealmod == RealmodInit /\ [][RMNext]_vars

\* ------------------------------------------------------------ the claims
LR == last["RateLimit"]
LC == last["CheckRateLimit"]
Abs(x) == IF x < 0 THEN 0 - x ELSE x

\* Some RateLimit call has begun and none is in progress.
RaceOver ==
    /\ obs.rlbegun >= 1
    /\ \A p \in Callers : rl[p].pc \notin {"load", "cas"}

\* Every RateLimit call so far read a time more than interval past the seed, and
\* their times lie within interval of each other.
SameWindow ==
    /\ obs.lo - obs.seed > interval
    /\ obs.hi - obs.lo <= interval

\* C1: when all the RateLimit calls made on a cell read times more than the
\* interval past its initial value and within the interval of each other, then
\* once all have returned, under every interleaving of their loads and
\* compare-and-swaps, exactly one has returned true and the others false.
C1_ExactlyOneWinner ==
    (RaceOver /\ SameWindow) =>
        /\ LR.n = obs.rlbegun
        /\ Len(granted) = 1

\* Three calls raced and all have returned: the last to return lost a
\* compare-and-swap, read the cell again and returned false.
C1_Witness ==
    /\ RaceOver /\ SameWindow
    /\ obs.rlbegun = 3
    /\ LR.n = 3
    /\ LR.fails >= 1
    /\ ~LR.ret

\* C2: on a cell seeded further in the past than the interval, the first
\* RateLimit call to complete (time t0) returns true; every call that completes
\* after it with t0 <= t < t0 + interval returns false; and the next call to
\* complete with t >= t0 + interval + 1, no other call having returned true
\* since the first, returns true.
C2_WindowThenAgain ==
    (obs.rlbegun >= 1 /\ obs.lo - obs.seed > interval /\ LR.n >= 1) =>
        /\ LR.n = 1 => LR.ret
        /\ (/\ LR.before # <<>>
            /\ LR.before[1] <= LR.t
            /\ LR.t < LR.before[1] + interval) => ~LR.ret
        /\ (/\ Len(LR.before) = 1
            /\ LR.t >= LR.before[1] + interval + 1) => LR.ret

\* The first call returned true at t0, a call at a time in [t0, t0 + interval)
\* returned false, and a call at t0 + interval + 1 or later returned true.
C2_Witness ==
    /\ obs.lo - obs.seed > interval
    /\ interval >= 1
    /\ Len(granted) = 2
    /\ LR.n = 3 /\ LR.ret
    /\ granted[2] >= granted[1] + interval + 1
    /\ \E t \in obs.denied : granted[1] <= t /\ t < granted[1] + interval

\* C3: any two RateLimit calls that return true have times that differ by more
\* than the interval.
C3_OncePerInterval ==
    \A i, j \in 1..Len(granted) :
        i < j => Abs(granted[j] - granted[i]) > interval

\* Two calls returned true, the second after losing a compare-and-swap to the
\* first and reading the cell again.
C3_Witness ==
    /\ Len(granted) = 2
    /\ LR.ret
    /\ LR.fails >= 1

\* C4: a RateLimit call that returns false has not changed the cell at any point
\* of its execution; one that returns true has changed it exactly once, from
\* the d it last read to its t, with t - d > interval.
C4_WritesOnlyOnSuccess ==
    /\ \A p \in Callers : rl[p].pc \in {"load", "cas"} => rl[p].w = <<>>
    /\ LR.n >= 1 =>
          IF LR.ret
          THEN LR.w = << <<LR.d, LR.t>> >> /\ LR.t - LR.d > interval
          ELSE LR.w = <<>>

\* A call returned false after a compare-and-swap of its own had failed, and
\* another call returned true.
C4_Witness ==
    /\ LR.n >= 2
    /\ ~LR.ret
    /\ LR.fails >= 1
    /\ Len(granted) >= 1

\* C5: the cell holds its seed or the time of the call whose compare-and-swap
\* succeeded most recently, and the cell has changed as many times as calls
\* have returned true.
C5_CellFollowsGrants ==
    /\ prevtime = IF granted = <<>> THEN obs.seed ELSE granted[Len(granted)]
    /\ obs.changes = Len(granted)

\* Two calls have returned true while a third is about to compare-and-swap
\* with a value the cell no longer holds.
C5_Witness ==
    /\ Len(granted) = 2
    /\ \E p \in Callers : rl[p].pc = "cas" /\ rl[p].d # prevtime

\* C6: every failed compare-and-swap of a RateLimit call follows a successful
\* one of another call made since the failing call's last load, and under fair
\* scheduling every call that has begun returns.
C6_GlobalProgress ==
    /\ [](~obs.orphan)
    /\ \A p \in Callers : (rl[p].pc # "idle") ~> (rl[p].pc = "idle")

\* A call whose compare-and-swap failed is back at its load.
C6_Witness ==
    \E p \in Callers : rl[p].pc = "load" /\ rl[p].fails >= 1 /\ rl[p].dirty

\* C7: CheckRateLimit returns t - d > interval, which is what a RateLimit call
\* that reads the same time t and the same cell value d, and is not interfered
\* with, returns.
C7_CheckAgreesWithRateLimit ==
    /\ LC.n >= 1 => (LC.ret <=> LC.t - LC.d > interval)
    /\ (LC.n >= 1 /\ LR.n >= 1 /\ LR.fails = 0 /\ LR.t = LC.t /\ LR.d = LC.d)
          => (LC.ret <=> LR.ret)

\* A probe and an undisturbed RateLimit call read the same time and the same
\* cell value; the sibling state with both returning false is reached as well.
C7_Witness ==
    /\ LC.n >= 1 /\ LR.n >= 1 /\ LR.fails = 0
    /\ LR.t = LC.t /\ LR.d = LC.d
    /\ LR.ret

\* C8: a CheckRateLimit call never changes the cell, whatever it returns and
\* whatever other calls are in progress.
C8_CheckIsReadOnly ==
    /\ LC.w = <<>>
    /\ \A p \in Callers : rl[p].pc = "ckload" => rl[p].w = <<>>

\* A probe returned false on a cell that a RateLimit call had changed, while
\* another call was in progress.
C8_Witness ==
    /\ LC.n >= 1
    /\ ~LC.ret
    /\ LC.d # obs.seed
    /\ prevtime = LC.d
    /\ \E p \in Callers : rl[p].pc # "idle"

\* The two timestamps appended last, the latest first.
Latest == app[Len(app)]
Previous == app[Len(app) - 1]

\* C9, as claimed: for any sequence of appended timestamps, checkafter(0, period)
\* is true iff the two most recently appended timestamps differ by <= period.
C9_AsClaimed ==
    (slast.op = "checkafter" /\ slast.num = 0 /\ ~resized /\ Len(app) >= 2) =>
        (slast.ret <=> Latest - Previous <= slast.period)

\* C9, amended: on an instance of capacity >= 2 that was never resized and has
\* had at least two timestamps appended, checkafter(1, period) is true iff the
\* most recently appended timestamp minus the one appended before it is
\* <= period; checkafter(0, period) compares the cursor's slot with itself and
\* is true for every period >= 0.
C9_CheckAfterOneBehind ==
    (slast.op = "checkafter" /\ ~resized /\ Len(app) >= 2) =>
        /\ (slast.num = 1 /\ len(times) >= 2) =>
              (slast.ret <=> Latest - Previous <= slast.period)
        /\ (slast.num = 0 /\ slast.period >= 0) => slast.ret

\* checkafter(1, period) returned false, reading the previous timestamp from a
\* slot past the cursor: the step back wrapped around the end of the buffer.
C9_Witness ==
    /\ slast.op = "checkafter" /\ slast.num = 1
    /\ ~resized /\ Len(app) >= 2 /\ len(times) >= 2
    /\ slast.i > index
    /\ ~slast.ret

\* The example's checks, made once its five timestamps are appended.
ExampleCheck(num) ==
    /\ app = ExampleTimes
    /\ slast.op = "check"
    /\ slast.num = num
    /\ slast.period = 25
    /\ slast.curtime = 55

\* C10, as claimed: check(2, 25, 55) reads the slot holding 30 and returns true,
\* and check(4, 25, 55) reads the slot holding 10 and returns false.
C10_AsClaimed ==
    /\ ExampleCheck(2) => (slast.val = 30 /\ slast.ret)
    /\ ExampleCheck(4) => (slast.val = 10 /\ ~slast.ret)

\* C10, amended: check(2, 25, 55) reads the slot holding 40, one slot behind the
\* cursor, and returns true; check(4, 25, 55) reads the slot holding 20, three
\* slots behind the cursor, and returns false.
C10_ExampleReadsOneLessBehind ==
    /\ ExampleCheck(2) => (slast.val = 40 /\ slast.ret)
    /\ ExampleCheck(4) => (slast.val = 20 /\ ~slast.ret)

\* check(4, 25, 55) has run after the five appends and read 20 from slot 2,
\* past the cursor, which is back on slot 0.
C10_Witness ==
    /\ ExampleCheck(4)
    /\ index = 0
    /\ slast.i = 2
    /\ slast.val = 20
    /\ ~slast.ret

\* The goroutines inside the critical section of the instance's lock.
InCS == {p \in Threads : sl[p] \in {"cs", "advanced", "exit", "panic"}}

\* C11, as claimed: in every state that append, check, checkafter and resize
\* to a size >= 1 can reach, the buffer has the length the last resize gave it
\* and the cursor is a valid position of it: 0 <= index < len(times).
C11_AsClaimed ==
    (failed.why = "none" /\ len(times) >= 1) =>
        /\ slast.op = "resize" => len(times) = slast.num
        /\ 0 <= index
        /\ index < len(times)

\* C12: once resize(n) with n >= 1 has run, from whatever capacity and cursor
\* position, no later append or check ends in a runtime panic: neither an
\* index out of range nor an integer division by zero.
C12_AppendAndCheckCompleteAfterResize ==
    (resized /\ len(times) >= 1) => failed.op \notin {"append", "check"}

\* A resize has shrunk the buffer below the cursor, and a check made after it
\* has completed with the cursor still out of range.
C12_Witness ==
    /\ resized
    /\ slast.op = "check"
    /\ failed.why = "none"
    /\ index >= len(times)
    /\ len(times) >= 1
    /\ InRange(times, slast.i)

\* C13, as claimed: resize refuses a size of zero or less, so the buffer is
\* never replaced by an empty one and no append, check or checkafter ever
\* divides by a length of zero.
C13_AsClaimed ==
    /\ len(times) >= 1
    /\ failed.why # "integer divide by zero"

\* C14: the operations on one instance are serialized by its lock: at most one
\* goroutine is between Lock and Unlock of append, check, checkafter or resize,
\* it is the one the lock names, and the lock is free when nobody is inside; a
\* call's effect on the buffer is there only while its caller still holds the
\* lock, so the bodies take effect one after another in the order of locking.
C14_Serialized ==
    /\ Cardinality(InCS) <= 1
    /\ \A p \in InCS : lock = p
    /\ InCS = {} => lock = "free"
    /\ slast.op # "none" => \E p \in Threads : sl[p] = "exit" /\ lock = p

\* g2 is inside resize's critical section, after an append by either
\* goroutine, and g1 is outside.
C14_Witness ==
    /\ lock = "g2"
    /\ sl["g2"] = "exit"
    /\ sl["g1"] = "idle"
    /\ slast.op = "resize"
    /\ Len(app) >= 1

\* This step is the body of goroutine p's call of op, run to completion.
Completes(p, op) == sl[p] = "cs" /\ sl'[p] = "exit" /\ slast'.op = op

\* C15: the body of append(t) moves the cursor to (index + 1) modulo the
\* capacity and stores t in that slot; every other slot keeps its value and
\* the capacity stays as it was.
C15_AppendFrame ==
    [][\A p \in Threads :
          Completes(p, "append") =>
              /\ len(times') = len(times)
              /\ index' = (index + 1) % len(times)
              /\ At(times', index') = slast'.val
              /\ app' = Append(app, slast'.val)
              /\ \A j \in 0..(len(times) - 1) :
                    j # index' => At(times', j) = At(times, j)]_vars

\* An append has wrapped the cursor back to slot 0 and stored 1 there, and a
\* slot it did not write still holds a timestamp appended before.
C15_Witness ==
    /\ slast.op = "append"
    /\ ~resized
    /\ index = 0
    /\ len(times) >= 2
    /\ Len(app) = len(times)
    /\ At(times, 0) = 1
    /\ At(times, 1) = app[1]
    /\ app[1] = 0 /\ app[Len(app)] = 1

\* C16: for 0 <= num < C, check(num, period, curtime) reads the slot that lies
\* num - 1 slots behind the cursor, counted modulo the capacity C, which is a
\* valid index in [0, C), and returns true iff curtime minus the timestamp in
\* that slot is <= period.
C16_CheckReadsNumMinusOneBehind ==
    (slast.op = "check" /\ 0 <= slast.num /\ slast.num < len(times)) =>
        /\ InRange(times, slast.i)
        /\ (slast.i + (slast.num - 1) + len(times)) % len(times)
              = index % len(times)
        /\ slast.val = At(times, slast.i)
        /\ slast.ret <=> (slast.curtime - slast.val <= slast.period)

\* check(2, 0, 1) has stepped back from slot 0 over the start of a buffer of
\* capacity 3 to its last slot, read an older timestamp there, and returned
\* false.
C16_Witness ==
    /\ slast.op = "check" /\ slast.num = 2
    /\ len(times) = 3
    /\ index = 0
    /\ slast.i = 2
    /\ slast.curtime = 1 /\ slast.period = 0 /\ slast.val = 0
    /\ At(times, 0) = 1
    /\ ~slast.ret

\* C17: for 0 <= num < C, checkafter(num, period) reads the slot that lies num
\* slots behind the cursor, counted modulo the capacity C, which is a valid
\* index, and returns true iff the timestamp in the cursor's slot minus the
\* timestamp in that slot is <= period.
C17_CheckAfterReadsNumBehind ==
    (slast.op = "checkafter" /\ 0 <= slast.num /\ slast.num < len(times)) =>
        /\ InRange(times, slast.i)
        /\ InRange(times, index)
        /\ (slast.i + slast.num) % len(times) = index
        /\ slast.val = At(times, slast.i)
        /\ slast.cur = At(times, index)
        /\ slast.ret <=> (slast.cur - slast.val <= slast.period)

\* checkafter(2, 0) on a buffer of capacity 3 has stepped back from slot 1
\* over the start of the buffer to slot 2, found the cursor's timestamp more
\* than the period later than the one there, and returned false.
C17_Witness ==
    /\ slast.op = "checkafter" /\ slast.num = 2
    /\ len(times) = 3
    /\ index = 1
    /\ slast.i = 2
    /\ slast.period = 0 /\ slast.cur = 1 /\ slast.val = 0
    /\ ~slast.ret

\* C18: the body of resize(size) with size >= 1 leaves a buffer of length size
\* whose entry i is the old entry i wherever the old buffer had one, and zero
\* from the old length on, wherever the cursor stands.
C18_ResizeCopiesPrefix ==
    [][\A p \in Threads :
          (Completes(p, "resize") /\ slast'.num >= 1) =>
              /\ len(times') = slast'.num
              /\ \A i \in 0..(slast'.num - 1) :
                    At(times', i) = IF i < len(times) THEN At(times, i) ELSE 0]_vars

\* resize(2) has cut a buffer of capacity 3 holding 0, 1, 1 down to 0, 1: the
\* entry under the cursor, the latest one appended, is the one dropped.
C18_Witness ==
    /\ slast.op = "resize" /\ slast.num = 2
    /\ app = <<1, 1>>
    /\ index = 2
    /\ times = <<0, 1>>

\* A completed check or checkafter with num >= C read the slot, and returned
\* the result, that the same call with num - C gives in the same state.
WrapsByCapacity ==
    /\ (slast.op = "check" /\ slast.num >= len(times)) =>
          LET i == CheckSlot(index, slast.num - len(times), len(times))
          IN  /\ slast.i = i
              /\ slast.ret = Within(slast.curtime, At(times, i), slast.period)
    /\ (slast.op = "checkafter" /\ slast.num >= len(times)) =>
          LET i == CheckAfterSlot(index, slast.num - len(times), len(times))
          IN  /\ slast.i = i
              /\ slast.ret = Within(At(times, index), At(times, i), slast.period)

\* C19, as claimed: on a buffer of capacity C >= 1, a check or checkafter
\* called with num >= C is not an error: the call completes, and it reads the
\* slot found by wrapping modulo C, so that its result is that of the same call
\* with num - C.
C19_AsClaimed ==
    len(times) >= 1 =>
        /\ failed.op \in {"check", "checkafter"} => failed.num < len(times)
        /\ WrapsByCapacity

\* C20: a negative elapsed time counts as within any window: for period >= 0,
\* check returns true whenever curtime is earlier than the timestamp it read,
\* and checkafter returns true whenever the timestamp under the cursor is
\* earlier than the timestamp it read.
C20_NegativeElapsedIsWithin ==
    /\ (slast.op = "check" /\ slast.period >= 0 /\ slast.curtime < slast.val)
          => slast.ret
    /\ (slast.op = "checkafter" /\ slast.period >= 0 /\ slast.cur < slast.val)
          => slast.ret

\* checkafter(1, 0) has found timestamp 0 under the cursor and the later
\* timestamp 1, appended before it, one slot behind, and returned true.
C20_Witness ==
    /\ slast.op = "checkafter" /\ slast.num = 1 /\ slast.period = 0
    /\ ~resized
    /\ app = <<1, 0>>
    /\ slast.cur = 0 /\ slast.val = 1
    /\ slast.ret

\* C21: test_and_set sets the flag and returns whether it was set before, and
\* clear unsets it: of the test_and_set calls made since the flag was last
\* unset (by construction or by clear), in whatever order the goroutines
\* made them, the first returned false and every other one returned true, and
\* the flag is set exactly when there has been such a call.
C21_OneFalsePerClear ==
    /\ flag \in {0, 1}
    /\ (flag = 0) <=> (epoch = <<>>)
    /\ \A k \in 1..Len(epoch) : epoch[k] = (k # 1)

\* The flag was set and then cleared by f1, which has not yet returned; after
\* the clear f2's test_and_set returned false and f3's returned true.
C21_Witness ==
    /\ afcalls = 4
    /\ af["f1"].op = "clear"
    /\ af["f2"].op = "test_and_set" /\ ~af["f2"].ret
    /\ af["f3"].op = "test_and_set" /\ af["f3"].ret
    /\ epoch = <<FALSE, TRUE>>

\* C22: the word of an AtomicBool is 0 or 1 in every reachable state, and every
\* get, in whatever order the goroutines' loads and stores fall, returns the
\* value passed to the latest set stored before its load, false if there was
\* none; so a get after set(true) with no later set returns true.
C22_GetReturnsLatestSet ==
    /\ bflag \in {0, 1}
    /\ Decode(bflag) = lastset
    /\ \A p \in Accessors : ab[p].op = "get" => ab[p].ret = ab[p].want

\* a1 has stored true and not yet returned; a2's get, made after that store,
\* returned true, and a3's get, made before any set, returned false.
C22_Witness ==
    /\ ab["a1"].op = "set" /\ ab["a1"].want
    /\ ab["a2"].op = "get" /\ ab["a2"].ret
    /\ ab["a3"].op = "get" /\ ~ab["a3"].ret
    /\ abcalls = 3
    /\ bflag = 1

\* C23: realmod(x, m) is a normalized modulo: for every x, negative ones
\* included, and every m >= 1, the result r has 0 <= r < m and x - r is a
\* multiple of m.
C23_NormalizedModulo ==
    (rr.st = "ret" /\ rm >= 1) =>
        /\ 0 <= rr.r
        /\ rr.r < rm
        /\ \E k \in (0 - MaxX - 1)..(MaxX + 1) : rx = k * rm + rr.r

\* realmod(-7, 4) has returned 1, where Go's -7 % 4 is -3.
C23_Witness ==
    /\ rx = 0 - 7
    /\ rm = 4
    /\ rr.st = "ret"
    /\ rr.r = 1
    /\ Rem(rx, rm) = 0 - 3

\* The timestamps in a never go down.
NonDecreasing(a) == \A k \in 1..(Len(a) - 1) : a[k] <= a[k + 1]

\* How many of the timestamps appended so far lie within period of curtime.
WithinCount(curtime, period) ==
    Cardinality({k \in 1..Len(app) : curtime - app[k] <= period})

\* C24: on an instance that was built zeroed and never resized, to which
\* non-decreasing timestamps have been appended, and for curtime > period >= 0
\* and 1 <= num <= C, check(num, period, curtime) is true iff at least num of
\* the timestamps appended so far lie within period of curtime; it is false
\* while fewer than num have been appended.
C24_SlidingWindow ==
    (/\ slast.op = "check"
     /\ ~resized
     /\ NonDecreasing(app)
     /\ slast.period >= 0 /\ slast.curtime > slast.period
     /\ 1 <= slast.num /\ slast.num <= len(times)) =>
        /\ slast.ret <=> (WithinCount(slast.curtime, slast.period) >= slast.num)
        /\ Len(app) < slast.num => ~slast.ret

\* Three timestamps 0, 1, 1 have gone into a buffer of capacity 2, the third
\* over the slot of the first, and check(2, 0, 1) has returned true: two of
\* them lie within the period.
C24_Witness ==
    /\ slast.op = "check" /\ slast.num = 2
    /\ slast.period = 0 /\ slast.curtime = 1
    /\ ~resized
    /\ len(times) = 2
    /\ app = <<0, 1, 1>>
    /\ slast.ret

\* C25: for interval >= 0 the cell never goes down: every step that changes
\* it, whichever RateLimit call makes it and however long before its
\* compare-and-swap that call read its time t, raises it by more than interval.
C25_CellOnlyRises ==
    [][/\ prevtime' >= prevtime
       /\ prevtime' # prevtime =>
             /\ interval >= 0
             /\ prevtime' - prevtime > interval
             /\ \E p \in Callers : rl[p].pc = "cas" /\ prevtime' = rl[p].t]_vars

\* The cell has been raised twice, the second time by a call that read its
\* time before the clock moved on to where it stands now.
C25_Witness ==
    /\ Len(granted) = 2
    /\ granted[2] - granted[1] > interval
    /\ prevtime = granted[2]
    /\ LR.ret /\ LR.t = granted[2]
    /\ LR.t < now

\* Slot number of the slot k behind the cursor, counted round the buffer.
Behind(k) == (index + len(times) * (k + 1) - k) % len(times)

\* C26: appends made concurrently, one by each of N goroutines, on an instance
\* of capacity C that is not resized, are never lost: once they have returned
\* the cursor stands N slots further on modulo C, and if N <= C the N
\* timestamps lie in the N consecutive slots that end at the cursor, the one
\* appended last under the cursor.  Stated for every state in which no
\* goroutine is between the two statements of its append.
C26_NoAppendLost ==
    LET N == Len(app)
    IN  (\A p \in Threads : sl[p] # "advanced") =>
            /\ failed.why = "none"
            /\ index = N % len(times)
            /\ N <= len(times) =>
                  /\ \A k \in 1..N : At(times, Behind(N - k)) = app[k]
                  /\ \A p \in Threads :
                        HasAppended(p) =>
                            \E k \in 0..(N - 1) : At(times, Behind(k)) = StampOf(p)
                  /\ Cardinality({Behind(k) : k \in 0..(N - 1)}) = N

\* Both goroutines have appended and returned, g2 first: on a buffer of
\* capacity 2 the cursor has come round to slot 0, which holds g1's timestamp,
\* with g2's in the slot behind it.
C26_Witness ==
    /\ \A p \in Threads : sl[p] = "idle"
    /\ app = <<StampOf("g2"), StampOf("g1")>>
    /\ len(times) = 2
    /\ index = 0
    /\ times = <<StampOf("g1"), StampOf("g2")>>

\* The two calls that only read.
Readers == {"check", "checkafter"}

\* C27: check and checkafter are read-only.  The body of a call, whatever its
\* arguments and whether it returns or panics, leaves times, index and the
\* capacity as they were; the result it returns is the one the same call gives
\* in the state it leaves, so repeating it with no append or resize between
\* returns the same; and when the call is over its caller holds no lock.
C27_ReadOnly ==
    [][\A p \in Threads :
          /\ (\E op \in Readers : Completes(p, op)) =>
                /\ times' = times
                /\ index' = index
                /\ len(times') = len(times)
                /\ slast'.op = "check" =>
                      slast'.ret = Within(slast'.curtime,
                                          At(times', CheckSlot(index', slast'.num, len(times'))),
                                          slast'.period)
                /\ slast'.op = "checkafter" =>
                      slast'.ret = Within(At(times', index'),
                                          At(times', CheckAfterSlot(index', slast'.num, len(times'))),
                                          slast'.period)
          /\ (sl[p] = "cs" /\ sl'[p] = "panic" /\ failed'.op \in Readers) =>
                (times' = times /\ index' = index)
          /\ (sl[p] \in {"exit", "panic"} /\ sl'[p] \in {"idle", "dead"}
                 /\ (slast.op \in Readers \/ failed.op \in Readers)) =>
                (times' = times /\ index' = index /\ lock = p /\ lock' = "free")]_vars

\* check(1, 0, 1) has returned false and given the lock back, leaving the
\* buffer and cursor that two appends produced; g2 now holds the lock for the
\* next call.
C27_Witness ==
    /\ sl["g1"] = "idle"
    /\ sl["g2"] = "exit"
    /\ slast.op = "check" /\ slast.num = 1 /\ ~slast.ret
    /\ slast.curtime = 1 /\ slast.period = 0
    /\ ~resized
    /\ app = <<1, 0>>
    /\ len(times) = 3
    /\ index = 2
    /\ times = <<0, 1, 0>>

====
